---- MODULE Spec2Model ----
(***************************************************************************)
(* A model of the safe-fetch-and-process pipeline of n8n-pysrv:            *)
(*   src/main.py                   the /url-contents handler, the URL      *)
(*                                 safety validator, the header sanitizer  *)
(*   src/tools/utils/url_utils.py  get_url_content, the two fetchers and   *)
(*                                 the three processors                    *)
(* One request is followed from its arrival to its result.  Strings are    *)
(* sequences of one-character strings, so that lower(), strip(),           *)
(* startswith() and endswith() are computed and not assumed.               *)
(***************************************************************************)
EXTENDS Integers, Sequences, FiniteSets, TLC

(***************************************************************************)
(* Strings                                                                 *)
(***************************************************************************)
UpperChars == <<"A","B","C","D","E","F","G","H","I","J","K","L","M","N","O","P","Q","R","S","T","U","V","W","X","Y","Z">>

LowerChars == <<"a","b","c","d","e","f","g","h","i","j","k","l","m","n","o","p","q","r","s","t","u","v","w","x","y","z">>

\* str.lower() on one character
LowerChar(c) ==
    IF \E i \in 1..Len(UpperChars) : UpperChars[i] = c
    THEN LowerChars[CHOOSE i \in 1..Len(UpperChars) : UpperChars[i] = c]
    ELSE c

\* str.lower()
Lower(s) == [i \in 1..Len(s) |-> LowerChar(s[i])]

\* the characters str.strip() removes
Whitespace == {" ", "\t", "\n"}

\* str.strip(): what lies between the first and the last character that is
\* no whitespace
Strip(s) ==
    LET solid == { i \in 1..Len(s) : s[i] \notin Whitespace }
    IN  IF solid = {} THEN <<>>
        ELSE SubSeq(s, CHOOSE i \in solid : \A j \in 1..(i - 1) : s[j] \in Whitespace,
                       CHOOSE i \in solid : \A j \in (i + 1)..Len(s) : s[j] \in Whitespace)

\* str.startswith(prefix)
StartsWith(s, prefix) ==
    Len(s) >= Len(prefix) /\ SubSeq(s, 1, Len(prefix)) = prefix

\* str.endswith(suffix)
EndsWith(s, suffix) ==
    Len(s) >= Len(suffix) /\ SubSeq(s, Len(s) - Len(suffix) + 1, Len(s)) = suffix

\* a string of n copies of the character c
Rep(c, n) == [i \in 1..n |-> c]

(***************************************************************************)
(* Python dicts: insertion-ordered sequences of <<key, value>> pairs with  *)
(* pairwise different keys.  An Optional[dict] is [some, d]; None is       *)
(* NoneDict.                                                               *)
(***************************************************************************)
DictKeys(d) == {d[i][1] : i \in 1..Len(d)}

DictGet(d, k) == d[CHOOSE i \in 1..Len(d) : d[i][1] = k][2]

\* d[k] = v : overwrite in place, or append a new key
DictSet(d, k, v) ==
    IF k \in DictKeys(d)
    THEN [i \in 1..Len(d) |-> IF d[i][1] = k THEN <<k, v>> ELSE d[i]]
    ELSE Append(d, <<k, v>>)

NoneDict == [some |-> FALSE, d |-> <<>>]

SomeDict(d) == [some |-> TRUE, d |-> d]

\* the truth value of an Optional[dict]: None and {} are false
Truthy(h) == h.some /\ h.d # <<>>

(***************************************************************************)
(* The header sanitizer (src/main.py, _sanitize_headers)                   *)
(***************************************************************************)
blocked ==
    { <<"h","o","s","t">>,
      <<"c","o","n","t","e","n","t","-","l","e","n","g","t","h">>,
      <<"t","r","a","n","s","f","e","r","-","e","n","c","o","d","i","n","g">>,
      <<"c","o","n","n","e","c","t","i","o","n">> }

\* a normalisation that forgets strip()
HeaderKeyWithoutStrip(k) == Lower(k)

\* lk = k.lower().strip()
HeaderKey(k) == Strip(Lower(k))

\* the for loop over headers.items(), from entry i on, with clean so far
RECURSIVE SanitizeLoop(_, _, _)
SanitizeLoop(d, i, clean) ==
    IF i > Len(d) THEN clean
    ELSE LET lk == HeaderKey(d[i][1])
         IN  IF lk \in blocked
             THEN SanitizeLoop(d, i + 1, clean)
             ELSE SanitizeLoop(d, i + 1, DictSet(clean, lk, d[i][2]))

SanitizeHeaders(headers) ==
    IF ~Truthy(headers) THEN NoneDict
    ELSE LET clean == SanitizeLoop(headers.d, 1, <<>>)
         IN  IF clean # <<>> THEN SomeDict(clean) ELSE NoneDict

(***************************************************************************)
(* IP addresses (the ipaddress module as _is_ip_dangerous uses it).  An    *)
(* address is [v, g]: v = 4 with four 8-bit groups, v = 6 with eight       *)
(* 16-bit groups.  A network is [v, g, len].                               *)
(***************************************************************************)
GroupBits(v) == IF v = 4 THEN 8 ELSE 16

Min(a, b) == IF a < b THEN a ELSE b

Max(a, b) == IF a > b THEN a ELSE b

\* the number of leading bits of group i that a prefix of length len covers
CoveredBits(v, len, i) == Min(GroupBits(v), Max(0, len - GroupBits(v) * (i - 1)))

\* ip in net
InNet(ip, net) ==
    /\ ip.v = net.v
    /\ \A i \in 1..Len(ip.g) :
          LET shift == 2 ^ (GroupBits(ip.v) - CoveredBits(ip.v, net.len, i))
          IN  ip.g[i] \div shift = net.g[i] \div shift

V4(a, b, c, d, len) == [v |-> 4, g |-> <<a, b, c, d>>, len |-> len]

V6(a, b, len) == [v |-> 6, g |-> <<a, b, 0, 0, 0, 0, 0, 0>>, len |-> len]

Ip4(a, b, c, d) == [v |-> 4, g |-> <<a, b, c, d>>]

Ip6(g) == [v |-> 6, g |-> g]

PrivateNetworks ==
    { V4(0,0,0,0, 8), V4(10,0,0,0, 8), V4(127,0,0,0, 8), V4(169,254,0,0, 16),
      V4(172,16,0,0, 12), V4(192,0,0,0, 29), V4(192,0,0,170, 31), V4(192,0,2,0, 24),
      V4(192,168,0,0, 16), V4(198,18,0,0, 15), V4(198,51,100,0, 24),
      V4(203,0,113,0, 24), V4(240,0,0,0, 4), V4(255,255,255,255, 32),
      [v |-> 6, g |-> <<0,0,0,0,0,0,0,1>>, len |-> 128],
      [v |-> 6, g |-> <<0,0,0,0,0,0,0,0>>, len |-> 128],
      [v |-> 6, g |-> <<0,0,0,0,0,65535,0,0>>, len |-> 96],
      V6(256,0, 64), V6(8193,0, 23), V6(8193,2, 48), V6(8193,3512, 32),
      V6(8193,16, 28), V6(64512,0, 7), V6(65152,0, 10) }

LoopbackNetworks ==
    { V4(127,0,0,0, 8), [v |-> 6, g |-> <<0,0,0,0,0,0,0,1>>, len |-> 128] }

LinkLocalNetworks == { V4(169,254,0,0, 16), V6(65152,0, 10) }

MulticastNetworks == { V4(224,0,0,0, 4), V6(65280,0, 8) }

ReservedNetworks ==
    { V4(240,0,0,0, 4),
      V6(0,0, 8), V6(256,0, 8), V6(512,0, 7), V6(1024,0, 6), V6(2048,0, 5),
      V6(4096,0, 4), V6(16384,0, 3), V6(24576,0, 3), V6(32768,0, 3),
      V6(40960,0, 3), V6(49152,0, 3), V6(57344,0, 4), V6(61440,0, 5),
      V6(63488,0, 6), V6(65024,0, 9) }

UnspecifiedNetworks ==
    { V4(0,0,0,0, 32), [v |-> 6, g |-> <<0,0,0,0,0,0,0,0>>, len |-> 128] }

InAny(ip, nets) == \E net \in nets : InNet(ip, net)

is_private(ip) == InAny(ip, PrivateNetworks)

is_loopback(ip) == InAny(ip, LoopbackNetworks)

is_link_local(ip) == InAny(ip, LinkLocalNetworks)

is_multicast(ip) == InAny(ip, MulticastNetworks)

is_reserved(ip) == InAny(ip, ReservedNetworks)

is_unspecified(ip) == InAny(ip, UnspecifiedNetworks)

\* a check that forgets the private ranges
IsIpDangerousLoopbackOnly(ip) == is_loopback(ip) \/ is_unspecified(ip)

\* _is_ip_dangerous
IsIpDangerous(ip) ==
    \/ is_private(ip)
    \/ is_loopback(ip)
    \/ is_link_local(ip)
    \/ is_multicast(ip)
    \/ is_reserved(ip)
    \/ is_unspecified(ip)

(***************************************************************************)
(* The URL safety validator (src/main.py, _assert_url_safe)                *)
(***************************************************************************)
BlockedHostnames ==
    { <<"l","o","c","a","l","h","o","s","t">>,
      <<"l","o","c","a","l","h","o","s","t",".","l","o","c","a","l","d","o","m","a","i","n">>,
      <<"l","o","c","a","l">> }

DotLocal == <<".","l","o","c","a","l">>

\* urlparse(raw_url).hostname: the host part of the URL, lower-cased
UrlHostname(url) == Lower(url.host)

\* a name check that forgets the .local suffix
HostBlockedLiteralOnly(host) == host \in BlockedHostnames

\* host in {...} or host.endswith(".local")
HostBlocked(host) == host \in BlockedHostnames \/ EndsWith(host, DotLocal)

\* ips = {...}; if not ips: ...; for ip in ips: if _is_ip_dangerous(ip): raise
\* (lines 192-197, once getaddrinfo has answered the list ips)
AddressVerdict(ips) ==
    IF ips = {} THEN "NoAddresses"
    ELSE IF \E ip \in ips : IsIpDangerous(ip) THEN "DangerousAddress"
    ELSE "Safe"

(***************************************************************************)
(* Text.  A text is a sequence of characters.  The character "@" stands    *)
(* for one hyperlink element (an <a href> around the letter a), which is   *)
(* what the two html2text configurations treat differently.                *)
(***************************************************************************)
\* the pieces f[lo], ..., f[hi] put one after the other
RECURSIVE Cat(_, _, _)
Cat(f, lo, hi) ==
    IF lo > hi THEN <<>>
    ELSE IF lo = hi THEN f[lo]
    ELSE LET mid == (lo + hi) \div 2
         IN  Cat(f, lo, mid) \o Cat(f, mid + 1, hi)

\* the end of the match of <[^<]+?> that starts at i, or 0: the least
\* j >= i + 2 with s[j] = ">" and no "<" in between
TagEnd(s, i) ==
    LET ends == { j \in (i + 2)..Len(s) :
                     s[j] = ">" /\ \A k \in (i + 1)..(j - 1) : s[k] # "<" }
    IN  IF s[i] = "<" /\ ends # {}
        THEN CHOOSE j \in ends : \A k \in ends : j <= k
        ELSE 0

\* re.sub(r'<[^<]+?>', '', content): the matches are cut out (no match holds
\* a second "<", so every "<" that has an end starts one); a hyperlink
\* element loses its two tags and keeps its letter
TagStrip(s) ==
    LET opens == { p \in 1..Len(s) : s[p] = "<" }
        piece == [i \in 1..Len(s) |->
                    IF \E p \in opens : p <= i /\ i <= TagEnd(s, p) THEN <<>>
                    ELSE IF s[i] = "@" THEN <<"a">>
                    ELSE <<s[i]>>]
    IN  Cat(piece, 1, Len(s))

\* html2text: a tag runs from a "<" to the next ">"; position i lies in a tag
\* if a "<" at or before it has no ">" before i and one at or after i
InMarkup(s, opens, i) ==
    \E p \in opens :
        /\ p <= i
        /\ \A k \in p..(i - 1) : s[k] # ">"
        /\ \E j \in i..Len(s) : j > p /\ s[j] = ">"

\* html2text.HTML2Text().handle(content): tags are dropped, text is kept, a
\* hyperlink is written [a](u) unless ignore_links
Html2TextBody(s, ignore_links) ==
    LET opens == { p \in 1..Len(s) : s[p] = "<" }
        piece == [i \in 1..Len(s) |->
                    IF InMarkup(s, opens, i) THEN <<>>
                    ELSE IF s[i] = "@"
                         THEN (IF ignore_links THEN <<"a">>
                               ELSE <<"[","a","]","(","u",")">>)
                    ELSE <<s[i]>>]
    IN  Cat(piece, 1, Len(s))

\* handle() ends its output with a blank line
Html2Text(s, ignore_links) == Html2TextBody(s, ignore_links) \o <<"\n", "\n">>

\* _process_raw
ProcessRaw(content) == content

\* _process_to_markdown; raises says whether h.handle(content) raises
ProcessToMarkdown(content, raises) ==
    IF ~raises THEN Strip(Html2Text(content, FALSE))
    ELSE Strip(TagStrip(content))

\* the shortest text _process_with_readability accepts (line 379)
MinReadableLen == 200

\* f"# {title}\n\n{summary_html}" if title else summary_html
FullContent(title, summary_html) ==
    IF title # <<>> THEN <<"#", " ">> \o title \o <<"\n", "\n">> \o summary_html
    ELSE summary_html

\* a fallback that converts with the converter of the extraction
ReadabilityFallbackNoLinks(content, raises) ==
    IF ~raises THEN Strip(Html2Text(content, TRUE))
    ELSE Strip(TagStrip(content))

\* the fallback of _process_with_readability (lines 353, 381, 388)
ReadabilityFallback(content, raises) == ProcessToMarkdown(content, raises)

\* len(text) < 200
ReadableTextTooShort(text) == Len(text) < MinReadableLen

\* _process_with_readability.  engine is what the readability library does:
\* [kind |-> "missing"] (ImportError), [kind |-> "raises"] (Document, title,
\* summary or handle raises), or [kind |-> "ok", title, summary]
ProcessWithReadability(content, engine, raises) ==
    IF engine.kind = "missing" THEN ReadabilityFallback(content, raises)
    ELSE IF engine.kind = "raises" THEN ReadabilityFallback(content, raises)
    ELSE LET text == Strip(Html2Text(FullContent(engine.title, engine.summary), TRUE))
         IN  IF ReadableTextTooShort(text)
             THEN ReadabilityFallback(content, raises)
             ELSE text

\* a truncation that keeps one character too many
TruncateOffByOne(processed_content, max_chars) ==
    IF processed_content # <<>> /\ Len(processed_content) > max_chars
    THEN SubSeq(processed_content, 1, max_chars + 1)
    ELSE processed_content

\* if processed_content and len(processed_content) > max_chars:
\*     processed_content = processed_content[:max_chars]       (max_chars >= 0)
Truncate(processed_content, max_chars) ==
    IF processed_content # <<>> /\ Len(processed_content) > max_chars
    THEN SubSeq(processed_content, 1, max_chars)
    ELSE processed_content

(***************************************************************************)
(* The direct fetcher's pure parts (url_utils.py, _fetch_with_request)     *)
(***************************************************************************)
UserAgentKey == <<"U","s","e","r","-","A","g","e","n","t">>

default_headers == << <<UserAgentKey, "Mozilla/5.0">> >>

\* default_headers.update(headers), entry by entry
RECURSIVE DictUpdate(_, _, _)
DictUpdate(d, other, i) ==
    IF i > Len(other) THEN d
    ELSE DictUpdate(DictSet(d, other[i][1], other[i][2]), other, i + 1)

\* lines 135-139
OutgoingHeaders(headers) ==
    IF Truthy(headers) THEN DictUpdate(default_headers, headers.d, 1) ELSE default_headers

\* header names compared letter for letter
HeaderNameExact(k) == k

\* the name a header is filed under in the request: requests keeps the
\* headers of a request in a mapping that ignores the case of the names
HeaderName(k) == Lower(k)

\* one entry set in that mapping: an entry of the same name takes the new
\* spelling and value and keeps its place, a new name is added at the end
HeaderSet(d, k, v) ==
    IF \E i \in 1..Len(d) : HeaderName(d[i][1]) = HeaderName(k)
    THEN [i \in 1..Len(d) |->
            IF HeaderName(d[i][1]) = HeaderName(k) THEN <<k, v>> ELSE d[i]]
    ELSE Append(d, <<k, v>>)

RECURSIVE PrepareLoop(_, _, _)
PrepareLoop(d, i, prepared) ==
    IF i > Len(d) THEN prepared
    ELSE PrepareLoop(d, i + 1, HeaderSet(prepared, d[i][1], d[i][2]))

\* requests.get(url, headers=default_headers, ...), lines 149-155: the
\* entries of the dict are set one by one, in the dict's order, in the
\* request's mapping.  (The library's own default headers lie under them and
\* are left out here.)
PrepareHeaders(d) == PrepareLoop(d, 1, <<>>)

\* the default of allowed_content_types (lines 143-147)
allowed_types ==
    { <<"t","e","x","t","/">>,
      <<"a","p","p","l","i","c","a","t","i","o","n","/","x","h","t","m","l">>,
      <<"a","p","p","l","i","c","a","t","i","o","n","/","x","m","l">> }

\* response.raise_for_status() raises
RaisesForStatus(status) == 400 <= status /\ status < 600

\* a test that lets a response without the header through
ContentTypeAllowedOrMissing(content_type) ==
    \/ content_type = <<>>
    \/ \E prefix \in allowed_types : StartsWith(Lower(content_type), prefix)

\* ctype = response.headers.get("Content-Type", "").lower()
\* any(ctype.startswith(prefix) for prefix in allowed_types)
ContentTypeAllowed(content_type) ==
    LET ctype == Lower(content_type)
    IN  \E prefix \in allowed_types : StartsWith(ctype, prefix)

\* a size test that lets a body of max_bytes + 1 bytes through
OverLimitOffByOne(total, max_bytes) == total > max_bytes + 1

\* if total > max_bytes
OverLimit(total, max_bytes) == total > max_bytes

\* b"".join(chunks)
RECURSIVE Join(_)
Join(chunks) == IF chunks = <<>> THEN <<>> ELSE Head(chunks) \o Join(Tail(chunks))

\* the number of bytes held in the list chunks
Held(chunks) == Len(Join(chunks))

\* response.encoding: the charset of the Content-Type header, ISO-8859-1 for
\* a text type without one, else nothing
ResponseEncoding(r) ==
    IF r.charset # "none" THEN r.charset
    ELSE IF StartsWith(Lower(r.ctype), <<"t","e","x","t">>) THEN "latin-1"
    ELSE "none"

KnownEncodings == {"utf-8", "latin-1"}

\* bytes.decode(encoding, errors="replace") on one byte: the byte xE9 is no
\* UTF-8 sequence and is the letter E9 in latin-1
DecodeByte(b, encoding) ==
    IF b # "xE9" THEN b
    ELSE IF encoding = "latin-1" THEN "E9" ELSE "?"

DecodeBytes(bytes, encoding) == [i \in 1..Len(bytes) |-> DecodeByte(bytes[i], encoding)]

(***************************************************************************)
(* Bounds and samples of the inputs                                        *)
(***************************************************************************)
\* how many addresses one resolver answer holds at most
MaxAddrs == 2

\* how many chunks one response body yields at most
MaxChunks == 2

\* how many entries a caller's header mapping holds at most
MaxHeaders == 2

\* the limits of UrlFetchRequest (src/main.py lines 143, 144)
MinMaxBytes == 10000

MaxMaxBytes == 50000000

MinMaxChars == 10000

MaxMaxChars == 10000000

\* the consent selectors (url_utils.py lines 247-253), by their position
NumCandidates == 5

HostSamples ==
    { <<"l","o","c","a","l","h","o","s","t">>,
      <<"L","O","C","A","L","H","O","S","T">>,
      <<"l","o","c","a","l","h","o","s","t",".","l","o","c","a","l","d","o","m","a","i","n">>,
      <<"l","o","c","a","l">>,
      <<"p","r","i","n","t","e","r",".","l","o","c","a","l">>,
      <<"m","y","l","o","c","a","l">>,
      <<"e","x","a","m","p","l","e",".","c","o","m">> }

AddrSamples ==
    { Ip4(127,0,0,1), Ip4(127,200,3,4), Ip4(10,1,2,3), Ip4(169,254,169,254),
      Ip4(192,168,1,1), Ip4(224,0,0,1), Ip4(240,0,0,1), Ip4(0,0,0,0),
      Ip4(8,8,8,8), Ip4(100,64,0,1),
      Ip6(<<0,0,0,0,0,0,0,1>>), Ip6(<<65152,0,0,0,0,0,0,1>>),
      Ip6(<<65282,0,0,0,0,0,0,1>>), Ip6(<<9734,18176,0,0,0,0,0,4369>>) }

AddrSets == { S \in SUBSET AddrSamples : Cardinality(S) <= MaxAddrs }

HeaderKeySamples ==
    { <<"H","o","s","t">>, <<" ","h","o","s","t"," ">>,
      <<"C","o","n","n","e","c","t","i","o","n">>,
      <<"c","o","n","t","e","n","t","-","l","e","n","g","t","h">>,
      <<"T","r","a","n","s","f","e","r","-","E","n","c","o","d","i","n","g">>,
      <<"X","-","T","o","k">>, <<"x","-","t","o","k">>, <<"x","-","t","o","k"," ">>,
      <<"u","s","e","r","-","a","g","e","n","t">> }

HeaderValueSamples == {"v1", "v2"}

\* every dict of at most MaxHeaders entries over the samples
RECURSIVE DictsOfLen(_)
DictsOfLen(n) ==
    IF n = 0 THEN { <<>> }
    ELSE { Append(d, <<k, v>>) :
             d \in DictsOfLen(n - 1),
             k \in HeaderKeySamples, v \in HeaderValueSamples }

HeaderDicts ==
    { d \in UNION { DictsOfLen(n) : n \in 0..MaxHeaders } :
         \A i, j \in 1..Len(d) : i # j => d[i][1] # d[j][1] }

\* the header mappings the pipeline is run with
PipelineHeaders ==
    { NoneDict,
      SomeDict(<< << <<"H","o","s","t">>, "v1" >>, << <<"X","-","T","o","k">>, "v2" >> >>) }

FetchMethods == {"request", "browser"}

ProcessMethods == {"raw", "markdown", "readability"}

\* what a caller of get_url_content can pass besides a member of the Enum: a
\* member of another Enum (it has .value) or any other object (it has none)
ForeignValues == {"other_enum", "not_enum"}

\* (max_bytes, max_chars) of the payloads of /url-contents that carry both
ApiLimitSamples ==
    { <<MinMaxBytes, MinMaxChars>>, <<MinMaxBytes - 1, MinMaxChars>>,
      <<MaxMaxBytes + 1, MinMaxChars>>, <<MinMaxBytes, MinMaxChars - 1>>,
      <<MinMaxBytes, MaxMaxChars + 1>> }

\* (max_bytes, max_chars) the class UrlFetchRequest was built with as
\* defaults: int(os.getenv("URL_FETCH_MAX_BYTES", ...)) and
\* int(os.getenv("URL_FETCH_MAX_CHARS", ...)) of a deployment whose
\* environment sets both just below the limits (main.py lines 143, 144)
EnvDefaultSamples == { <<MinMaxBytes - 1, MinMaxChars - 1>> }

\* max_bytes and max_chars of the direct callers (the tests pass 500 and 200)
LibMaxBytesSamples == {1, 4}

LibMaxCharsSamples == {0, 3, 1000000}

StatusSamples == {200, 301, 404, 503}

ContentTypeSamples ==
    { <<>>,
      <<"t","e","x","t">>,
      <<"t","e","x","t","/","h","t","m","l">>,
      <<"T","E","X","T","/","H","T","M","L">>,
      <<"i","m","a","g","e","/","p","n","g">>,
      <<"a","p","p","l","i","c","a","t","i","o","n","/","j","s","o","n">>,
      <<"a","p","p","l","i","c","a","t","i","o","n","/","x","m","l">> }

CharsetSamples == {"none", "utf-8", "bogus"}

\* what response.apparent_encoding can hand back: no guess, or a guess
DetectedSamples == {"none", "latin-1"}

ChunkSamples == { <<>>, <<"@">>, <<"<","b",">","xE9">> }

\* what page.content() can return
HtmlSamples == { <<>>, <<"<","p",">","@"," ","a">> }

\* (title, length of the summary) of the extractions
ExtractionSamples ==
    { << <<>>, 0 >>, << <<>>, MinReadableLen - 1 >>, << <<>>, MinReadableLen >>,
      << <<"t">>, MinReadableLen - 6 >>, << <<"t">>, MinReadableLen - 5 >> }

EngineSamples ==
    { [kind |-> "missing", title |-> <<>>, summary |-> <<>>],
      [kind |-> "raises", title |-> <<>>, summary |-> <<>>] }
    \cup { [kind |-> "ok", title |-> e[1], summary |-> Rep("a", e[2])] :
             e \in ExtractionSamples }

(***************************************************************************)
(* State                                                                   *)
(***************************************************************************)
VARIABLES
    pc,        \* where the request is
    entry,     \* "api": POST /url-contents; "lib": a direct call of get_url_content
    req,       \* the request as the caller gave it
    headers,   \* the headers argument of get_url_content
    calls,     \* the calls made so far that the claims are about, in order
    verdict,   \* the validator's verdict, "none" before it ran
    ips,       \* the addresses the resolver answered (local to the validator)
    resp,      \* the response of requests.get
    sent,      \* the headers of the outgoing request
    total,     \* the running byte total of the read loop
    chunks,    \* the chunks kept by the read loop
    nread,     \* how many chunks the body has yielded
    consumed,  \* how many body bytes have been read from the response
    pw,        \* the playwright driver: "none", "running", "stopped"
    browser,   \* "none", "launched", "closed" (browser.close() returned),
               \* "close_raised" (browser.close() raised)
    context,   \* "none", "created", "closed", "close_raised", likewise
    exc,       \* the exception in flight in _fetch_with_browser, "none" if none
    sel,       \* the consent selector the scan is at
    scan,      \* what the consent scan did, selector by selector (local to it)
    trail,     \* the steps of the rendered fetch from navigation on, in order:
               \* "goto" and "content" once they returned, the scan once it
               \* ended, the two waits once called
    raw,       \* the fetcher's output
    libenv,    \* what html2text and readability did in the processor
    processed, \* the processor's output, before truncation
    result     \* the outcome of the request

reqVars == <<entry, req, headers>>

valVars == <<verdict, ips>>

directVars == <<resp, sent, total, chunks, nread, consumed>>

browserVars == <<pw, browser, context, exc, sel, scan, trail>>

procVars == <<raw, libenv, processed>>

vars == <<pc, reqVars, calls, valVars, directVars, browserVars, procVars, result>>

NoReq ==
    [host |-> <<>>, fetch_method |-> "none", process_method |-> "none",
     headers |-> NoneDict, allow_redirects |-> FALSE, limits_given |-> TRUE,
     max_bytes |-> 0, max_chars |-> 0]

NoResp == [status |-> 0, ctype |-> <<>>, charset |-> "none", content_length |-> -1]

NoEngine == [kind |-> "unused", title |-> <<>>, summary |-> <<>>]

NoLibEnv == [raises |-> FALSE, engine |-> NoEngine]

NoResult == [kind |-> "none", err |-> "none", http |-> 0, content |-> <<>>]

\* the status /url-contents answers an error with (main.py lines 187-197,
\* 230-233); 422 is the framework's answer to a payload the model rejects
HttpStatusOf(err) ==
    IF err = "ValidationError" THEN 422
    ELSE IF err \in {"BlockedHostname", "ResolutionFailed", "NoAddresses",
                     "DangerousAddress", "RenderingEngineUnavailable"} THEN 400
    ELSE 500

Failure(err) ==
    [kind |-> "error", err |-> err,
     http |-> IF entry = "api" THEN HttpStatusOf(err) ELSE 0, content |-> <<>>]

Success(content) ==
    [kind |-> "ok", err |-> "none",
     http |-> IF entry = "api" THEN 200 ELSE 0, content |-> content]

Init ==
    /\ pc = "start"
    /\ entry = "none"
    /\ req = NoReq
    /\ headers = NoneDict
    /\ calls = <<>>
    /\ verdict = "none"
    /\ ips = {}
    /\ resp = NoResp
    /\ sent = <<>>
    /\ total = 0
    /\ chunks = <<>>
    /\ nread = 0
    /\ consumed = 0
    /\ pw = "none"
    /\ browser = "none"
    /\ context = "none"
    /\ exc = "none"
    /\ sel = 0
    /\ scan = <<>>
    /\ trail = <<>>
    /\ raw = <<>>
    /\ libenv = NoLibEnv
    /\ processed = <<>>
    /\ result = NoResult

(***************************************************************************)
(* POST /url-contents (src/main.py)                                        *)
(***************************************************************************)
\* max_bytes and max_chars lie within the Field(ge=..., le=...) limits
LimitsInRange(r) ==
    /\ MinMaxBytes <= r.max_bytes /\ r.max_bytes <= MaxMaxBytes
    /\ MinMaxChars <= r.max_chars /\ r.max_chars <= MaxMaxChars

\* the validation of the payload against UrlFetchRequest: the limits are
\* tested on the values the payload carries; a field it leaves out takes its
\* default, which the model class does not validate
PayloadValid(r) == r.limits_given => LimitsInRange(r)

\* a payload arrives, with max_bytes and max_chars or without them, and the
\* framework validates it against UrlFetchRequest; fetch_url_contents runs
\* only on a valid one
ApiRequest ==
    /\ pc = "start"
    /\ \E host \in HostSamples, h \in PipelineHeaders, fm \in FetchMethods,
          pm \in ProcessMethods, redirects \in BOOLEAN,
          given \in BOOLEAN, lim \in ApiLimitSamples \cup EnvDefaultSamples :
          LET r == [host |-> host, fetch_method |-> fm, process_method |-> pm,
                    headers |-> h, allow_redirects |-> redirects,
                    limits_given |-> given,
                    max_bytes |-> lim[1], max_chars |-> lim[2]]
          IN  /\ lim \in (IF given THEN ApiLimitSamples ELSE EnvDefaultSamples)
              /\ req' = r
              /\ entry' = "api"
              /\ IF PayloadValid(r)
                 THEN pc' = "handler" /\ result' = result
                 ELSE pc' = "done" /\ result' = Failure("ValidationError")'
    /\ UNCHANGED <<headers, calls, valVars, directVars, browserVars, procVars>>

\* where fetch_url_contents goes on after _assert_url_safe: an unsafe verdict
\* is raised as an HTTPException and ends the handler
AfterValidationIgnoringVerdict(v) == "validated"

AfterValidation(v) == IF v = "Safe" THEN "validated" ELSE "done"

\* _assert_url_safe(str(payload.url)), line 209
AssertUrlSafe ==
    /\ pc = "handler"
    /\ LET host == UrlHostname(req)
       IN  \/ /\ HostBlocked(host)
              /\ verdict' = "BlockedHostname"
              /\ ips' = {}
              /\ calls' = Append(calls, "_assert_url_safe")
           \/ /\ ~HostBlocked(host)
              /\ calls' = calls \o <<"_assert_url_safe", "getaddrinfo">>
              /\ \/ verdict' = "ResolutionFailed" /\ ips' = {}
                 \/ \E answer \in AddrSets :
                       /\ ips' = answer
                       /\ verdict' = AddressVerdict(answer)
    /\ pc' = AfterValidation(verdict')
    /\ result' = IF verdict' = "Safe" THEN result ELSE Failure(verdict')
    /\ UNCHANGED <<reqVars, directVars, browserVars, procVars>>

\* get_url_content(..., headers=_sanitize_headers(payload.headers), ...)
CallGetUrlContent ==
    /\ pc = "validated"
    /\ headers' = SanitizeHeaders(req.headers)
    /\ calls' = Append(calls, "get_url_content")
    /\ ips' = {}
    /\ pc' = "core"
    /\ UNCHANGED <<entry, req, verdict, directVars, browserVars, procVars, result>>

(***************************************************************************)
(* get_url_content (src/tools/utils/url_utils.py)                          *)
(***************************************************************************)
\* a direct caller (the command line tool, the tests) calls get_url_content
LibCall ==
    /\ pc = "start"
    /\ \E fm \in FetchMethods \cup ForeignValues,
          pm \in ProcessMethods \cup ForeignValues,
          mb \in LibMaxBytesSamples, mc \in LibMaxCharsSamples :
          req' = [host |-> <<"e","x","a","m","p","l","e",".","c","o","m">>,
                  fetch_method |-> fm, process_method |-> pm,
                  headers |-> NoneDict, allow_redirects |-> FALSE,
                  limits_given |-> TRUE, max_bytes |-> mb, max_chars |-> mc]
    /\ entry' = "lib"
    /\ headers' = NoneDict
    /\ calls' = Append(calls, "get_url_content")
    /\ pc' = "core"
    /\ UNCHANGED <<valVars, directVars, browserVars, procVars, result>>

\* the objects that have a .value attribute (lines 69-72 read it of both)
HasValue(m) == m # "not_enum"

\* lines 69-88: the log line, then the choice of the fetcher
Dispatch ==
    /\ pc = "core"
    /\ IF ~HasValue(req.fetch_method) \/ ~HasValue(req.process_method)
       THEN pc' = "done" /\ result' = Failure("AttributeError")
       ELSE IF req.fetch_method = "request"
       THEN pc' = "http_get" /\ result' = result
       ELSE IF req.fetch_method = "browser"
       THEN pc' = "pw_import" /\ result' = result
       ELSE pc' = "done" /\ result' = Failure("UnsupportedMethod")
    /\ UNCHANGED <<reqVars, calls, valVars, directVars, browserVars, procVars>>

(***************************************************************************)
(* The direct fetcher (_fetch_with_request)                                *)
(***************************************************************************)
\* the statuses requests.get can hand back: a redirect is handed back only
\* when redirects are not followed
Statuses(allow_redirects) ==
    IF allow_redirects THEN StatusSamples \ {301} ELSE StatusSamples

\* what lines 156-160 do with the response r: the status check comes first,
\* then the Content-Type check
ResponseCheckContentTypeFirst(r) ==
    IF ~ContentTypeAllowed(r.ctype) THEN "UnsupportedContentType"
    ELSE IF RaisesForStatus(r.status) THEN "NetworkError"
    ELSE "none"

ResponseCheck(r) ==
    IF RaisesForStatus(r.status) THEN "NetworkError"
    ELSE IF ~ContentTypeAllowed(r.ctype) THEN "UnsupportedContentType"
    ELSE "none"

\* lines 135-160: the request is sent; it fails, or a response arrives whose
\* status and Content-Type are checked
HttpGet ==
    /\ pc = "http_get"
    /\ calls' = Append(calls, "requests.get")
    /\ sent' = PrepareHeaders(OutgoingHeaders(headers))
    /\ \/ /\ pc' = "done"
          /\ result' = Failure("NetworkError")
          /\ resp' = resp
       \/ \E status \in Statuses(req.allow_redirects), ctype \in ContentTypeSamples,
             charset \in CharsetSamples, len \in {-1, 0} :
             LET r == [status |-> status, ctype |-> ctype, charset |-> charset,
                       content_length |-> len]
             IN  /\ resp' = r
                 /\ IF ResponseCheck(r) = "none"
                    THEN pc' = "read" /\ result' = result
                    ELSE pc' = "done" /\ result' = Failure(ResponseCheck(r))
    /\ UNCHANGED <<reqVars, valVars, total, chunks, nread, consumed, browserVars, procVars>>

\* lines 165-171: one turn of the loop over response.iter_content
ReadChunk ==
    /\ pc = "read"
    /\ nread < MaxChunks
    /\ \E chunk \in ChunkSamples :
          /\ nread' = nread + 1
          /\ consumed' = consumed + Len(chunk)
          /\ IF chunk = <<>>
             THEN UNCHANGED <<total, chunks, pc, result>>
             ELSE /\ total' = total + Len(chunk)
                  /\ IF OverLimit(total', req.max_bytes)
                     THEN /\ pc' = "done"
                          /\ result' = Failure("SizeLimitExceeded")
                          /\ chunks' = chunks
                     ELSE /\ chunks' = Append(chunks, chunk)
                          /\ UNCHANGED <<pc, result>>
    /\ UNCHANGED <<reqVars, calls, valVars, resp, sent, browserVars, procVars>>

\* the connection breaks while the body is read
ReadFails ==
    /\ pc = "read"
    /\ pc' = "done"
    /\ result' = Failure("NetworkError")
    /\ UNCHANGED <<reqVars, calls, valVars, directVars, browserVars, procVars>>

\* line 175: response.encoding or response.apparent_encoding or "utf-8"
ChosenEncoding(declared, detected) ==
    IF declared # "none" THEN declared
    ELSE IF detected # "none" THEN detected
    ELSE "utf-8"

\* lines 173-176: the body has ended; the bytes are joined and decoded, and
\* the function returns: the locals of its read loop are gone.  The detector
\* is asked only when the response declares no encoding; it reads
\* response.content, which the loop over iter_content has used up, and that
\* read can raise.  bytes.decode raises on an encoding name it does not know.
Decode ==
    /\ pc = "read"
    /\ \E detected \in DetectedSamples \cup {"raises"} :
          LET declared == ResponseEncoding(resp)
              encoding == ChosenEncoding(declared, detected)
          IN  /\ detected = "raises" => declared = "none"
              /\ IF encoding \in KnownEncodings
                 THEN /\ raw' = DecodeBytes(Join(chunks), encoding)
                      /\ pc' = "process"
                      /\ result' = result
                      /\ total' = 0 /\ chunks' = <<>> /\ nread' = 0
                      /\ consumed' = consumed
                 ELSE /\ raw' = raw
                      /\ pc' = "done"
                      /\ result' = Failure(IF encoding = "raises" THEN "RuntimeError"
                                           ELSE "LookupError")
                      /\ UNCHANGED <<total, chunks, nread, consumed>>
    /\ UNCHANGED <<reqVars, calls, valVars, resp, sent, browserVars, libenv, processed>>

(***************************************************************************)
(* The rendered fetcher (_fetch_with_browser).  Every call into playwright *)
(* either returns or raises; which one is the browser's choice.            *)
(***************************************************************************)
\* lines 201-207
ImportPlaywright ==
    /\ pc = "pw_import"
    /\ \/ pc' = "pw_start" /\ result' = result
       \/ pc' = "done" /\ result' = Failure("RenderingEngineUnavailable")
    /\ UNCHANGED <<reqVars, calls, valVars, directVars, browserVars, procVars>>

\* line 211: with sync_playwright() as p
StartPlaywright ==
    /\ pc = "pw_start"
    /\ \/ pw' = "running" /\ pc' = "launch" /\ result' = result
       \/ pw' = pw /\ pc' = "done" /\ result' = Failure("BrowserError")
    /\ UNCHANGED <<reqVars, calls, valVars, directVars, browser, context, exc, sel,
                   scan, trail, procVars>>

\* lines 213-216: p.chromium.launch(...), outside the try
Launch ==
    /\ pc = "launch"
    /\ calls' = Append(calls, "chromium.launch")
    /\ \/ browser' = "launched" /\ exc' = exc /\ pc' = "new_context"
       \/ browser' = browser /\ exc' = "BrowserError" /\ pc' = "pw_exit"
    /\ UNCHANGED <<reqVars, valVars, directVars, pw, context, sel, scan, trail,
                   procVars, result>>

\* where an exception of browser.new_context(...) goes: the call is made
\* before the try statement is entered, so no finally clause runs
NewContextFailure == "pw_exit"

\* lines 219-228: browser.new_context(...), outside the try
NewContext ==
    /\ pc = "new_context"
    /\ \/ context' = "created" /\ exc' = exc /\ pc' = "new_page"
       \/ context' = context /\ exc' = "BrowserError" /\ pc' = NewContextFailure
    /\ UNCHANGED <<reqVars, calls, valVars, directVars, pw, browser, sel, scan, trail,
                   procVars, result>>

\* a call inside the try block at step here: it returns and the block goes on
\* at next, or it raises and the finally clause runs
TryStep(here, next) ==
    /\ pc = here
    /\ \/ exc' = exc /\ pc' = next
       \/ exc' = "BrowserError" /\ pc' = "ctx_close"

\* line 231
NewPage ==
    /\ TryStep("new_page", "init_script")
    /\ UNCHANGED <<reqVars, calls, valVars, directVars, pw, browser, context, sel,
                   scan, trail, procVars, result>>

\* lines 234-236
AddInitScript ==
    /\ TryStep("init_script", "extra_headers")
    /\ UNCHANGED <<reqVars, calls, valVars, directVars, pw, browser, context, sel,
                   scan, trail, procVars, result>>

\* lines 239-240: if headers: page.set_extra_http_headers(headers)
SetExtraHeaders ==
    /\ IF Truthy(headers)
       THEN TryStep("extra_headers", "goto")
       ELSE pc = "extra_headers" /\ pc' = "goto" /\ exc' = exc
    /\ UNCHANGED <<reqVars, calls, valVars, directVars, pw, browser, context, sel,
                   scan, trail, procVars, result>>

\* line 243
Goto ==
    /\ TryStep("goto", "consent")
    /\ calls' = Append(calls, "page.goto")
    /\ sel' = 1
    /\ trail' = IF pc' = "consent" THEN <<"goto">> ELSE trail
    /\ UNCHANGED <<reqVars, valVars, directVars, pw, browser, context, scan,
                   procVars, result>>

\* a scan that goes on to the next selector after a successful click
ScanNextWithoutBreak(s, outcome) ==
    IF outcome = "lookup_raises" THEN NumCandidates + 1 ELSE s + 1

\* the selector the scan is at after the outcome at selector s: a raised
\* lookup leaves the loop through the outer except (line 262), a successful
\* click through break (line 258); nothing found and a raised click
\* (continue, line 260) go on to the next selector
ScanNext(s, outcome) ==
    IF outcome \in {"lookup_raises", "clicked"} THEN NumCandidates + 1 ELSE s + 1

\* the scan swallowed a failure of a lookup or of a click
ScanSwallowed(sc) ==
    \E i \in 1..Len(sc) : sc[i][2] \in {"lookup_raises", "click_raises"}

\* lines 246-263: one turn of the loop over the candidates.  The lookup
\* raises (the outer except ends the scan), finds nothing, or finds the
\* element; then the click succeeds (break) or raises (continue)
ConsentStep ==
    /\ pc = "consent"
    /\ sel <= NumCandidates
    /\ \E outcome \in {"lookup_raises", "absent", "clicked", "click_raises"} :
          /\ scan' = Append(scan, <<sel, outcome>>)
          /\ sel' = ScanNext(sel, outcome)
    /\ UNCHANGED <<pc, reqVars, calls, valVars, directVars, pw, browser, context, exc,
                   trail, procVars, result>>

\* lines 266-270: the wait for the network to go idle; a timeout is ignored
WaitNetworkIdle ==
    /\ pc = "consent"
    /\ sel > NumCandidates
    /\ \E timed_out \in BOOLEAN :
          trail' = trail \o <<IF ScanSwallowed(scan) THEN "consent_swallowed" ELSE "consent",
                              IF timed_out THEN "idle_timeout" ELSE "idle">>
    /\ scan' = <<>>
    /\ pc' = "js_wait"
    /\ UNCHANGED <<reqVars, calls, valVars, directVars, pw, browser, context, exc, sel,
                   procVars, result>>

\* line 271: page.wait_for_timeout(wait_for_js)
WaitForJs ==
    /\ TryStep("js_wait", "content")
    /\ trail' = Append(trail, "wait_for_timeout")
    /\ UNCHANGED <<reqVars, calls, valVars, directVars, pw, browser, context, sel,
                   scan, procVars, result>>

\* lines 274-275: html_content = page.content(); return html_content
Content ==
    /\ pc = "content"
    /\ \/ \E html \in HtmlSamples :
             /\ raw' = html
             /\ exc' = exc
             /\ trail' = Append(trail, "content")
       \/ raw' = raw /\ exc' = "BrowserError" /\ trail' = trail
    /\ pc' = "ctx_close"
    /\ UNCHANGED <<reqVars, calls, valVars, directVars, pw, browser, context, sel,
                   scan, libenv, processed, result>>

\* where the finally clause goes when context.close() raises: the clause is
\* left at once and browser.close() is not reached
CloseContextFailure == "pw_exit"

\* line 278: context.close(), first statement of the finally clause
CloseContext ==
    /\ pc = "ctx_close"
    /\ \/ context' = "closed" /\ exc' = exc /\ pc' = "browser_close"
       \/ context' = "close_raised" /\ exc' = "BrowserError" /\ pc' = CloseContextFailure
    /\ UNCHANGED <<reqVars, calls, valVars, directVars, pw, browser, sel, scan, trail,
                   procVars, result>>

\* line 279: browser.close(), second statement of the finally clause
CloseBrowser ==
    /\ pc = "browser_close"
    /\ \/ browser' = "closed" /\ exc' = exc
       \/ browser' = "close_raised" /\ exc' = "BrowserError"
    /\ pc' = "pw_exit"
    /\ UNCHANGED <<reqVars, calls, valVars, directVars, pw, context, sel, scan, trail,
                   procVars, result>>

\* the with statement of line 211 is left: the driver is stopped, and the
\* function returns html_content or lets the exception through
ExitPlaywright ==
    /\ pc = "pw_exit"
    /\ pw' = "stopped"
    /\ IF exc = "none"
       THEN pc' = "process" /\ result' = result /\ raw' = raw
       ELSE pc' = "done" /\ result' = Failure(exc) /\ raw' = <<>>
    /\ UNCHANGED <<reqVars, calls, valVars, directVars, browser, context, exc, sel,
                   scan, trail, libenv, processed>>

(***************************************************************************)
(* The processors and the truncation (get_url_content, lines 90-105)       *)
(***************************************************************************)
\* the processor chosen by process_method, on the libraries' behaviour env
Processed(process_method, content, env) ==
    IF process_method = "raw" THEN ProcessRaw(content)
    ELSE IF process_method = "markdown" THEN ProcessToMarkdown(content, env.raises)
    ELSE ProcessWithReadability(content, env.engine, env.raises)

\* lines 90-105: the processor runs, its output is truncated and returned
Process ==
    /\ pc = "process"
    /\ IF req.process_method \notin ProcessMethods
       THEN /\ result' = Failure("UnsupportedMethod")
            /\ UNCHANGED <<libenv, processed>>
       ELSE /\ \E raises \in (IF req.process_method = "raw" THEN {FALSE} ELSE BOOLEAN),
                  engine \in (IF req.process_method = "readability"
                              THEN EngineSamples ELSE {NoEngine}) :
                  libenv' = [raises |-> raises, engine |-> engine]
            /\ processed' = Processed(req.process_method, raw, libenv')
            /\ result' = Success(Truncate(processed', req.max_chars))
    /\ pc' = "done"
    /\ UNCHANGED <<reqVars, calls, valVars, directVars, browserVars, raw>>

(***************************************************************************)
(* The specification                                                       *)
(***************************************************************************)
Next ==
    \/ ApiRequest
    \/ AssertUrlSafe
    \/ CallGetUrlContent
    \/ LibCall
    \/ Dispatch
    \/ HttpGet
    \/ ReadChunk
    \/ ReadFails
    \/ Decode
    \/ ImportPlaywright
    \/ StartPlaywright
    \/ Launch
    \/ NewContext
    \/ NewPage
    \/ AddInitScript
    \/ SetExtraHeaders
    \/ Goto
    \/ ConsentStep
    \/ WaitNetworkIdle
    \/ WaitForJs
    \/ Content
    \/ CloseContext
    \/ CloseBrowser
    \/ ExitPlaywright
    \/ Process

Spec == Init /\ [][Next]_vars

(***************************************************************************)
(* The header sanitizer on its own: every header mapping of the samples is *)
(* handed to _sanitize_headers once.                                       *)
(***************************************************************************)
InitSanitize ==
    /\ pc = "sanitize"
    /\ entry = "api"
    /\ \E h \in {NoneDict} \cup { SomeDict(d) : d \in HeaderDicts } :
          req = [NoReq EXCEPT !.headers = h]
    /\ headers = NoneDict
    /\ calls = <<>>
    /\ verdict = "none"
    /\ ips = {}
    /\ resp = NoResp
    /\ sent = <<>>
    /\ total = 0
    /\ chunks = <<>>
    /\ nread = 0
    /\ consumed = 0
    /\ pw = "none"
    /\ browser = "none"
    /\ context = "none"
    /\ exc = "none"
    /\ sel = 0
    /\ scan = <<>>
    /\ trail = <<>>
    /\ raw = <<>>
    /\ libenv = NoLibEnv
    /\ processed = <<>>
    /\ result = NoResult

\* _sanitize_headers(payload.headers)
Sanitize ==
    /\ pc = "sanitize"
    /\ headers' = SanitizeHeaders(req.headers)
    /\ pc' = "sanitized"
    /\ UNCHANGED <<entry, req, calls, valVars, directVars, browserVars, procVars, result>>

\* _fetch_with_request builds the headers of its request from the
\* sanitizer's answer (lines 135-139, 149-155)
BuildRequestHeaders ==
    /\ pc = "sanitized"
    /\ sent' = PrepareHeaders(OutgoingHeaders(headers))
    /\ pc' = "prepared"
    /\ UNCHANGED <<reqVars, calls, valVars, resp, total, chunks, nread, consumed,
                   browserVars, procVars, result>>

NextSanitize == Sanitize \/ BuildRequestHeaders

SpecSanitize == InitSanitize /\ [][NextSanitize]_vars

(***************************************************************************)
(* Properties                                                              *)
(***************************************************************************)
\* how often the call name occurs in calls
Count(name) == Cardinality({ i \in 1..Len(calls) : calls[i] = name })

\* name was called, and before every call of later
Precedes(name, later) ==
    \A j \in 1..Len(calls) :
        calls[j] = later => \E i \in 1..(j - 1) : calls[i] = name

Called(name) == \E i \in 1..Len(calls) : calls[i] = name

\* a request was sent to the target, or a browser was started for it
Fetched == Called("requests.get") \/ Called("chromium.launch") \/ Called("page.goto")

UnsafeVerdicts ==
    {"BlockedHostname", "ResolutionFailed", "NoAddresses", "DangerousAddress"}

\* fetch_url_contents has run _assert_url_safe and gone on or ended
HandlerPastValidation == entry = "api" /\ pc \notin {"start", "handler", "sanitize", "sanitized", "prepared"}
                         /\ PayloadValid(req)

\* C1: in the /url-contents handler the validator runs exactly once, before
\* get_url_content is called, and get_url_content is called only on the
\* verdict Safe; on an unsafe verdict no fetcher is invoked and nothing is
\* sent to the target.
C1_ValidatorGatesFetch ==
    entry = "api" =>
        /\ Count("_assert_url_safe") <= 1
        /\ HandlerPastValidation => Count("_assert_url_safe") = 1
        /\ Called("get_url_content") =>
              /\ verdict = "Safe"
              /\ Count("get_url_content") = 1
              /\ Precedes("_assert_url_safe", "get_url_content")
        /\ Fetched => Called("get_url_content")
        /\ verdict \in UnsafeVerdicts =>
              /\ ~Fetched
              /\ ~Called("get_url_content")
              /\ pc = "done"
              /\ result.kind = "error" /\ result.err = verdict

\* a request with a dangerous resolved address has ended without any fetch
C1_Witness ==
    /\ entry = "api"
    /\ pc = "done"
    /\ verdict = "DangerousAddress"
    /\ calls = <<"_assert_url_safe", "getaddrinfo">>

\* the six tests of the claim, on one address
ClaimDangerous(ip) ==
    \/ is_private(ip) \/ is_loopback(ip) \/ is_link_local(ip)
    \/ is_multicast(ip) \/ is_reserved(ip) \/ is_unspecified(ip)

\* 127.0.0.0/8, 10.0.0.0/8, 169.254.0.0/16, read off the octets
InNamedRanges(ip) ==
    /\ ip.v = 4
    /\ \/ ip.g[1] = 127
       \/ ip.g[1] = 10
       \/ ip.g[1] = 169 /\ ip.g[2] = 254

\* C2: for a hostname that is not blocked and a non-empty resolver answer,
\* the verdict is Safe exactly if no address of the answer is private,
\* loopback, link-local, multicast, reserved or unspecified, and is
\* DangerousAddress otherwise; one dangerous address among safe ones is
\* enough, in particular one of 127/8, 10/8 or 169.254/16.
C2_SafeIffNoDangerousAddress ==
    (entry = "api" /\ Called("getaddrinfo") /\ ips # {}) =>
        /\ verdict = "Safe" <=> \A ip \in ips : ~ClaimDangerous(ip)
        /\ verdict # "Safe" => verdict = "DangerousAddress"
        /\ (\E ip \in ips : InNamedRanges(ip)) => verdict = "DangerousAddress"

\* an answer of one public and one private address was rejected
C2_Witness ==
    /\ entry = "api"
    /\ verdict = "DangerousAddress"
    /\ Ip4(8,8,8,8) \in ips
    /\ Ip4(10,1,2,3) \in ips

\* the hostnames the claim names
ClaimBlockedHost(host) ==
    \/ host = <<"l","o","c","a","l","h","o","s","t">>
    \/ host = <<"l","o","c","a","l","h","o","s","t",".","l","o","c","a","l","d","o","m","a","i","n">>
    \/ host = <<"l","o","c","a","l">>
    \/ (Len(host) >= 6 /\ SubSeq(host, Len(host) - 5, Len(host)) = <<".","l","o","c","a","l">>)

\* C3: a URL whose hostname is localhost, localhost.localdomain or local, or
\* ends with .local, is rejected with BlockedHostname, and the resolver is
\* never called for it.
C3_BlockedHostNeverResolved ==
    (HandlerPastValidation /\ ClaimBlockedHost(UrlHostname(req))) =>
        /\ verdict = "BlockedHostname"
        /\ ~Called("getaddrinfo")
        /\ result.kind = "error" /\ result.err = "BlockedHostname"
        /\ pc = "done"

\* a host ending in .local was rejected without a lookup
C3_Witness ==
    /\ entry = "api"
    /\ req.host = <<"p","r","i","n","t","e","r",".","l","o","c","a","l">>
    /\ verdict = "BlockedHostname"
    /\ calls = <<"_assert_url_safe">>

\* C4: in the read loop of the direct fetcher the size bound is tested after
\* every chunk: while the loop runs the bytes read so far are all kept and
\* are at most max_bytes; the fetch ends with SizeLimitExceeded exactly when
\* a chunk takes the bytes read past max_bytes, whatever Content-Length
\* said; the kept bytes never exceed max_bytes; an aborted fetch returns no
\* content.
C4_SizeBoundAfterEveryChunk ==
    /\ Held(chunks) <= req.max_bytes
    /\ pc = "read" => (consumed <= req.max_bytes /\ Held(chunks) = consumed
                       /\ total = consumed)
    /\ (req.fetch_method = "request" /\ consumed > req.max_bytes) =>
          /\ pc = "done"
          /\ result.kind = "error" /\ result.err = "SizeLimitExceeded"
    /\ result.err = "SizeLimitExceeded" =>
          /\ consumed > req.max_bytes
          /\ result.content = <<>>
          /\ raw = <<>>

\* a fetch was aborted on its second chunk although Content-Length said 0
C4_Witness ==
    /\ result.err = "SizeLimitExceeded"
    /\ resp.content_length = 0
    /\ chunks # <<>>
    /\ nread = 2

\* the Content-Type, compared without regard to case, starts with none of
\* the default prefixes
ClaimContentTypeRefused(content_type) ==
    LET lc == Lower(content_type)
    IN  /\ ~StartsWith(lc, <<"t","e","x","t","/">>)
        /\ ~StartsWith(lc, <<"a","p","p","l","i","c","a","t","i","o","n","/","x","h","t","m","l">>)
        /\ ~StartsWith(lc, <<"a","p","p","l","i","c","a","t","i","o","n","/","x","m","l">>)

\* a response has arrived in the direct fetcher
ResponseArrived == resp.status # 0

\* C5 as claimed: every response whose Content-Type starts with none of the
\* allowed prefixes makes the direct fetcher fail with UnsupportedContentType
\* with no body byte read.
C5_AsClaimed ==
    (ResponseArrived /\ ClaimContentTypeRefused(resp.ctype)) =>
        /\ result.kind = "error" /\ result.err = "UnsupportedContentType"
        /\ consumed = 0

\* C5: every response that passes the status check (its status is no 4xx or
\* 5xx) and whose Content-Type, missing or not, starts with none of the
\* allowed prefixes makes the direct fetcher fail with UnsupportedContentType
\* before the read loop: no body byte is read and no content is returned; a
\* 4xx or 5xx response fails with NetworkError instead, also with no byte read.
C5_RefusedContentTypeAfterStatus ==
    (ResponseArrived /\ ClaimContentTypeRefused(resp.ctype)) =>
        /\ pc = "done"
        /\ result.kind = "error"
        /\ result.err = (IF 400 <= resp.status /\ resp.status < 600
                         THEN "NetworkError" ELSE "UnsupportedContentType")
        /\ consumed = 0 /\ nread = 0 /\ chunks = <<>>
        /\ result.content = <<>> /\ raw = <<>>

\* a 200 response without a Content-Type header was refused
C5_Witness ==
    /\ resp.status = 200
    /\ resp.ctype = <<>>
    /\ result.err = "UnsupportedContentType"
    /\ consumed = 0

\* C6: the text get_url_content returns is at most max_chars long, for every
\* fetch method, process method and processed text.
C6_ResultWithinMaxChars ==
    result.kind = "ok" =>
        /\ Len(result.content) <= req.max_chars
        /\ result.content = SubSeq(processed, 1, Len(result.content))
        /\ Len(processed) <= req.max_chars => result.content = processed

\* a processed text longer than max_chars was returned cut to max_chars
C6_Witness ==
    /\ result.kind = "ok"
    /\ Len(processed) > req.max_chars
    /\ Len(result.content) = req.max_chars
    /\ req.max_chars > 0

\* _fetch_with_browser has returned or raised
RenderedFetchOver == req.fetch_method = "browser" /\ pc \in {"process", "done"}

\* close() was called on it (and returned or raised)
CloseCalled(x) == x \in {"closed", "close_raised"}

\* C7 as claimed: on every exit path of the rendered fetcher after the
\* browser was launched, whichever step raised, browser.close() has been
\* called on the browser and context.close() on the context, if one was
\* created, before the call returns.
C7_AsClaimed ==
    (RenderedFetchOver /\ browser # "none") =>
        /\ CloseCalled(browser)
        /\ context = "none" \/ CloseCalled(context)

\* C8 as claimed: a request whose fetch_method or process_method is no
\* recognized value fails with UnsupportedMethod, and both are validated
\* before a fetcher is invoked, so that no fetch is made for it.
C8_AsClaimed ==
    (Called("get_url_content")
       /\ (req.fetch_method \notin FetchMethods \/ req.process_method \notin ProcessMethods)) =>
        /\ ~Fetched
        /\ pc = "done" => (result.kind = "error" /\ result.err = "UnsupportedMethod")

\* the text the Readability strategy extracted, after conversion
ExtractedText(engine) ==
    Strip(Html2Text(FullContent(engine.title, engine.summary), TRUE))

\* one of the fallback conditions of the claim holds
ClaimFallback(engine) ==
    \/ engine.kind = "missing"
    \/ engine.kind = "raises"
    \/ Len(ExtractedText(engine)) < 200

\* the Readability strategy has run
ReadabilityRan == req.process_method = "readability" /\ libenv.engine.kind # "unused"

ClaimRemoved ==
    { <<"h","o","s","t">>,
      <<"c","o","n","t","e","n","t","-","l","e","n","g","t","h">>,
      <<"t","r","a","n","s","f","e","r","-","e","n","c","o","d","i","n","g">>,
      <<"c","o","n","n","e","c","t","i","o","n">> }

\* _sanitize_headers has run on req.headers and answered headers
Sanitized == pc = "sanitized"

\* the entries of the sanitizer's answer (None has none)
OutEntries == { headers.d[i] : i \in 1..Len(headers.d) }

\* C10 as claimed: the output has no key equal, without regard to case, to
\* one of the four names; every input entry (k, v) whose key is none of the
\* four is in the output as (lowercase(k), v); all output keys are lower case.
C10_AsClaimed ==
    Sanitized =>
        /\ \A e \in OutEntries : Lower(e[1]) \notin ClaimRemoved
        /\ \A i \in 1..Len(req.headers.d) :
              LET k == req.headers.d[i][1]
                  v == req.headers.d[i][2]
              IN  Lower(k) \notin ClaimRemoved => <<Lower(k), v>> \in OutEntries
        /\ \A e \in OutEntries : e[1] = Lower(e[1])

\* the key as the sanitizer normalises it: lower case, no whitespace around it
ClaimNormal(k) ==
    LET lk == Lower(k)
        solid == { i \in 1..Len(lk) : lk[i] \notin {" ", "\t", "\n"} }
    IN  IF solid = {} THEN <<>>
        ELSE SubSeq(lk, CHOOSE i \in solid : \A j \in solid : i <= j,
                        CHOOSE i \in solid : \A j \in solid : j <= i)

\* C10: the output has no key equal to one of the four names; every input
\* entry (k, v) whose key, lower-cased and stripped of the whitespace around
\* it, is none of the four is in the output under that normalised key, with
\* the value of the last input entry that has the same normalised key; the
\* output holds nothing else, and all its keys are lower case and stripped.
C10_SanitizerNormalisesAndFilters ==
    Sanitized =>
        LET d == req.headers.d
            lastOf(n) == CHOOSE i \in 1..Len(d) :
                            /\ ClaimNormal(d[i][1]) = n
                            /\ \A j \in (i + 1)..Len(d) : ClaimNormal(d[j][1]) # n
        IN  /\ \A e \in OutEntries :
                  /\ e[1] \notin ClaimRemoved
                  /\ Lower(e[1]) \notin ClaimRemoved
                  /\ e[1] = ClaimNormal(e[1])
                  /\ \E i \in 1..Len(d) : ClaimNormal(d[i][1]) = e[1]
            /\ \A i \in 1..Len(d) :
                  LET n == ClaimNormal(d[i][1])
                  IN  IF n \in ClaimRemoved
                      THEN \A e \in OutEntries : e[1] # n
                      ELSE <<n, d[lastOf(n)][2]>> \in OutEntries
            /\ \A i, j \in 1..Len(headers.d) :
                  i # j => headers.d[i][1] # headers.d[j][1]
            /\ headers.some <=> headers.d # <<>>

\* a Host header was removed and a header with capitals survived in lower case
C10_Witness ==
    /\ Sanitized
    /\ \E i \in 1..Len(req.headers.d) : req.headers.d[i][1] = <<"H","o","s","t">>
    /\ \E i \in 1..Len(req.headers.d) : req.headers.d[i] = << <<"X","-","T","o","k">>, "v2" >>
    /\ headers = SomeDict(<< << <<"x","-","t","o","k">>, "v2" >> >>)

\* the request has reached a fetcher: get_url_content has chosen one, or a
\* call of one was made
ReachedFetcher ==
    \/ pc \in {"http_get", "read", "pw_import", "pw_start", "launch"}
    \/ Fetched

\* C11: in every call that reaches a fetcher max_bytes lies within
\* [10_000, 50_000_000] and max_chars within [10_000, 10_000_000]; a request
\* whose value, given or defaulted, lies outside is rejected before the
\* validator resolves the host and before any fetch.
C11_AsClaimed ==
    /\ ReachedFetcher => LimitsInRange(req)
    /\ (entry # "none" /\ ~LimitsInRange(req)) =>
           /\ ~Called("getaddrinfo")
           /\ ~Fetched
           /\ pc = "done" => result.kind = "error"

\* the direct fetcher has read a body to its end within max_bytes
BodyReadCompletely ==
    /\ req.fetch_method = "request"
    /\ Called("requests.get")
    /\ ResponseCheck(resp) = "none"
    /\ \/ pc = "process"
       \/ pc = "done" /\ result.err \notin {"NetworkError", "SizeLimitExceeded"}

\* C12: in the direct fetcher, once the body has been read completely within
\* max_bytes, decoding never fails the fetch: whatever charset the response
\* declares (a known one, none, an unknown one) and whatever the bytes are,
\* the fetch returns text; invalid sequences are replaced, not raised.
C12_AsClaimed ==
    BodyReadCompletely => result.err \notin {"LookupError", "RuntimeError"}

\* the statuses the claim calls non-success: everything but 2xx
ClaimNonSuccess(status) == status < 200 \/ status >= 300

\* C13: the direct fetcher returns content only for a success status: every
\* response with a non-success status (a 3xx handed back because redirects
\* are not followed, a 4xx, a 5xx) fails with NetworkError, before the
\* Content-Type check and before any body byte is read, so that no body of
\* such a response is returned.
C13_AsClaimed ==
    (ResponseArrived /\ ClaimNonSuccess(resp.status)) =>
        /\ pc = "done"
        /\ result.kind = "error" /\ result.err = "NetworkError"
        /\ consumed = 0 /\ nread = 0
        /\ raw = <<>> /\ result.content = <<>>

\* the orders of the steps the claim allows from navigation on
ClaimStepOrders ==
    { <<"goto", c, w, "wait_for_timeout", "content">> :
        c \in {"consent", "consent_swallowed"}, w \in {"idle", "idle_timeout"} }

IsPrefix(s, t) == Len(s) <= Len(t) /\ SubSeq(t, 1, Len(s)) = s

\* C14: in the rendered fetcher, once page.goto has returned, the steps run
\* in the order consent scan, network-idle wait, fixed wait, extraction.  No
\* failure of a lookup or of a click in the scan and no timeout of the
\* network-idle wait raises out of its step: the scan and the idle wait end
\* with no exception in flight and the fixed wait is called next; the
\* extraction is called unless the fixed wait itself raises.  The scan visits
\* the selectors in list order without skipping one and visits none after a
\* successful click.
C14_StepsAfterNavigation ==
    /\ \E order \in ClaimStepOrders : IsPrefix(trail, order)
    /\ pc = "consent" <=> trail = <<"goto">>
    /\ pc = "consent" =>
          /\ exc = "none"
          /\ Len(scan) <= NumCandidates
          /\ \A i \in 1..Len(scan) : scan[i][1] = i
          /\ \A i \in 1..(Len(scan) - 1) : scan[i][2] # "clicked"
          /\ (scan # <<>> /\ scan[Len(scan)][2] = "clicked") => sel > NumCandidates
          /\ sel <= NumCandidates => sel = Len(scan) + 1
    /\ Len(trail) = 3 => (pc = "js_wait" /\ exc = "none")
    /\ Len(trail) = 4 => (pc = "content" \/ exc # "none")
    /\ (Len(trail) >= 1 /\ Len(trail) <= 3) => result.kind = "none"

\* a fetch whose scan swallowed a failure and whose network-idle wait timed
\* out went through the fixed wait and returned the document
C14_Witness ==
    /\ trail = <<"goto", "consent_swallowed", "idle_timeout", "wait_for_timeout", "content">>
    /\ result.kind = "ok"

\* the headers of the request were built from the sanitizer's answer
Prepared == pc = "prepared"

\* the places of the outgoing headers named name, case ignored
SentNamed(name) == { j \in 1..Len(sent) : Lower(sent[j][1]) = Lower(name) }

\* the sanitized caller headers have an entry named name, case ignored
CallerNames(name) ==
    \E i \in 1..Len(headers.d) : Lower(headers.d[i][1]) = Lower(name)

\* C15: the outgoing headers of the direct fetcher are the default set
\* overlaid with the sanitized caller headers.  Every sanitized caller header
\* is sent exactly once, with the caller's value, also when its name matches
\* a default's name in another case (user-agent against User-Agent); every
\* default the caller does not name is sent once with its default value;
\* nothing else is sent.
C15_CallerHeadersWin ==
    Prepared =>
        /\ \A i \in 1..Len(headers.d) :
              LET k == headers.d[i][1]
                  v == headers.d[i][2]
              IN  /\ Cardinality(SentNamed(k)) = 1
                  /\ \A j \in SentNamed(k) : sent[j][2] = v
        /\ \A i \in 1..Len(default_headers) :
              LET k == default_headers[i][1]
              IN  /\ Cardinality(SentNamed(k)) = 1
                  /\ ~CallerNames(k) => \A j \in SentNamed(k) : sent[j] = default_headers[i]
        /\ \A j \in 1..Len(sent) :
              \/ CallerNames(sent[j][1])
              \/ \E i \in 1..Len(default_headers) :
                    Lower(default_headers[i][1]) = Lower(sent[j][1])

\* a caller's user-agent replaced the default User-Agent; another header of
\* the caller went out beside it
C15_Witness ==
    /\ Prepared
    /\ Len(req.headers.d) = 2
    /\ Len(headers.d) = 2
    /\ \E i \in 1..2 : headers.d[i] = << <<"u","s","e","r","-","a","g","e","n","t">>, "v2" >>
    /\ Len(sent) = 2
    /\ \A j \in SentNamed(UserAgentKey) : sent[j][2] = "v2"
    /\ Cardinality(SentNamed(UserAgentKey)) = 1
====
